---- MODULE Spec2Model ----
(***************************************************************************)
(* Model of the elevation-data notebook of agrosuccess-data               *)
(* (dem-derived/download_site_elevation_data.ipynb, the code cells held   *)
(* in src/README.md): the bounding-box geometry, the coordinate            *)
(* conversions, the fetch / warp / clean-up pipeline of get_elev_data and  *)
(* the batch cell that runs it for every study site.                       *)
(*                                                                         *)
(* Floats are fixed-point integers: the float v is the integer v * One.    *)
(* The input sets hold values whose products and halves are integers, so   *)
(* the arithmetic below is exact.                                          *)
(* Strings are TLA+ strings; a path is the sequence of its '/'-separated   *)
(* components, so an absolute path starts with the empty component, as     *)
(* str.split('/') gives it.                                                *)
(***************************************************************************)
EXTENDS Integers, Sequences, FiniteSets, TLC

VARIABLES
    cwd,        \* os.getcwd(), a path
    sites,      \* the site registry: rows of site_location_info.csv, in order
    tgt_crs,    \* tgt_crs_epsg_no handed to get_elev_data
    exp_radius, \* a, the experimental zone radius handed to get_elev_data
    beta,       \* beta handed to get_elev_data
    entry,      \* which cell / function the session runs: "", "batch", "warp"
    pc,         \* position in the running code
    i,          \* index in sites of the row the batch loop is at (0: none)
    run,        \* number of the batch run of this session
    dirs,       \* directories on disk: a set of paths
    files,      \* regular files on disk: path -> content
    cache,      \* state of the tile cache of the elevation package
    fetchL,     \* local variables of get_wgs84_elev_data in the current
                \* get_elev_data call
    warpL,      \* local variables of warp_elev_data in the current call
    ops,        \* file-system operations of this run, in order
    clips,      \* elevation.clip invocations of this run, in order
    procs,      \* external processes started in this run, in order
    out,        \* lines printed in this run, in order
    err,        \* the exception that ended the run, if any
    firstRun,   \* the disk as the first run left it when it ended normally
    call        \* the last direct call of a pure function and its result

vars == <<cwd, sites, tgt_crs, exp_radius, beta, entry, pc, i, run, dirs, files,
          cache, fetchL, warpL, ops, clips, procs, out, err, firstRun, call>>

-----------------------------------------------------------------------------
(* Bounds of the model *)

\* Longest site registry.
MaxSites == 2
\* Number of batch runs in one session.
MaxRuns == 2

\* The float 1.0 in fixed point.
One == 4

\* Radii (a) of the pipeline runs: 1.0 and 3.0.
RadiusSet == {One, 3 * One}
\* Buffer factors: -2.0, 0.0 and the default 1.0.
BetaSet == {-2 * One, 0, One}
\* EPSG numbers: the batch cell's 2062, another known one, an unknown one.
CrsSet == {2062, 27700, 99999}

-----------------------------------------------------------------------------
(* Results of calls: exc = "" and a value, or the name of the exception *)

Ok(v) == [exc |-> "", val |-> v]
Raise(e) == [exc |-> e, val |-> <<>>]

-----------------------------------------------------------------------------
(* Geometry *)

RECURSIVE ISqrtIn(_, _, _)
\* The largest r in lo..hi with r * r <= v, for lo * lo <= v.
ISqrtIn(v, lo, hi) ==
    IF lo = hi THEN lo
    ELSE LET mid == (lo + hi + 1) \div 2
         IN IF mid * mid <= v THEN ISqrtIn(v, mid, hi)
            ELSE ISqrtIn(v, lo, mid - 1)

\* np.sqrt of a non-negative v, rounded down to an integer; 46340 * 46340 is
\* the largest square below 2^31.
ISqrt(v) == ISqrtIn(v, 0, 46340)

\* x * n / d rounded down, computed without leaving 32 bits.
MulDiv(x, n, d) == (x \div d) * n + ((x % d) * n) \div d

\* np.pi as the fraction 355 / 113.
PiNum == 355
PiDen == 113

\* What np.sqrt returns for a negative argument (with a RuntimeWarning).
NaN == "nan"

\* A mutant of experimental_zone_radius: the area is not divided by pi.
experimental_zone_radius_nopi(area) ==
    IF area < 0 THEN [exc |-> "", val |-> NaN]
    ELSE [exc |-> "", val |-> ISqrt(area * One * One)]

\* experimental_zone_radius(area): np.sqrt(area / np.pi), the area a plain
\* number of square units and the radius in fixed point. Nothing is checked:
\* 0 gives 0.0 and a negative area gives nan.
experimental_zone_radius(area) ==
    IF area < 0 THEN [exc |-> "", val |-> NaN]
    ELSE [exc |-> "", val |-> ISqrt(MulDiv(area * One * One, PiDen, PiNum))]

\* A mutant of study_site_bbox: no dimension check, the first two components
\* of the point are used.
study_site_bbox_nocheck(p_coords, a, b) ==
    IF Len(p_coords) < 2 THEN Raise("IndexError")
    ELSE LET delta == (a * (One + b)) \div One
         IN Ok(<<p_coords[1] - delta, p_coords[2] - delta,
                 p_coords[1] + delta, p_coords[2] + delta>>)

\* A mutant of study_site_bbox: the buffer is not added to the radius.
study_site_bbox_nobuffer(p_coords, a, b) ==
    IF Len(p_coords) # 2 THEN Raise("ValueError")
    ELSE LET delta == (a * b) \div One
         IN Ok(<<p_coords[1] - delta, p_coords[2] - delta,
                 p_coords[1] + delta, p_coords[2] + delta>>)

\* A mutant of study_site_bbox: the buffer factor is ignored.
study_site_bbox_nobeta(p_coords, a, b) ==
    IF Len(p_coords) # 2 THEN Raise("ValueError")
    ELSE LET delta == a
         IN Ok(<<p_coords[1] - delta, p_coords[2] - delta,
                 p_coords[1] + delta, p_coords[2] + delta>>)

\* A mutant of study_site_bbox: the corners are swapped.
study_site_bbox_swapped(p_coords, a, b) ==
    IF Len(p_coords) # 2 THEN Raise("ValueError")
    ELSE LET delta == (a * (One + b)) \div One
         IN Ok(<<p_coords[1] + delta, p_coords[2] + delta,
                 p_coords[1] - delta, p_coords[2] - delta>>)

\* study_site_bbox(p_coords, a, beta): [minx, miny, maxx, maxy], or ValueError
\* when the point has not exactly 2 components.
study_site_bbox(p_coords, a, b) ==
    IF Len(p_coords) # 2 THEN Raise("ValueError")
    ELSE LET point_x == p_coords[1]
             point_y == p_coords[2]
             delta == (a * (One + b)) \div One
             minx == point_x - delta
             miny == point_y - delta
             maxx == point_x + delta
             maxy == point_y + delta
         IN Ok(<<minx, miny, maxx, maxy>>)

-----------------------------------------------------------------------------
(* Coordinate reference systems (pyproj) *)

\* The EPSG numbers pyproj resolves; Proj('epsg:N') raises CRSError otherwise.
KnownCrs == {4326, 2062, 27700}

\* The projection of a known system, from WGS84 degrees to its own units:
\* x = k * lon + x0, y = k * lat + y0.
ProjParams(epsg_no) ==
    CASE epsg_no = 2062  -> [k |-> 3, x0 |-> 600, y0 |-> -400]
      [] epsg_no = 27700 -> [k |-> 2, x0 |-> 400, y0 |-> -100]
      [] OTHER           -> [k |-> 1, x0 |-> 0, y0 |-> 0]

\* float('inf'), which transform returns for a point it cannot transform:
\* it is called without errcheck, so no exception is raised.
Inf == 1000000

\* 90 degrees, the largest latitude a projection accepts.
MaxLat == 90 * One

\* A mutant of transform_inv: the false origin is not taken off.
transform_inv_no_origin(epsg_no, x, y) ==
    LET pr == ProjParams(epsg_no)
    IN IF x = Inf \/ y = Inf THEN <<Inf, Inf>>
       ELSE <<x \div pr.k, y \div pr.k>>

\* transform(src, tgt, x, y, always_xy=True) between WGS84 and a projected
\* system; the inverse rounds to the fixed-point grid.
transform_fwd(epsg_no, x, y) ==
    LET pr == ProjParams(epsg_no)
    IN IF x = Inf \/ y = Inf \/ y > MaxLat \/ y < -MaxLat THEN <<Inf, Inf>>
       ELSE <<pr.k * x + pr.x0, pr.k * y + pr.y0>>

transform_inv(epsg_no, x, y) ==
    LET pr == ProjParams(epsg_no)
    IN IF x = Inf \/ y = Inf THEN <<Inf, Inf>>
       ELSE <<(x - pr.x0) \div pr.k, (y - pr.y0) \div pr.k>>

\* A mutant of from_wgs84: an EPSG number that is not known is not refused.
from_wgs84_any_crs(coord, tgt_epsg_no) ==
    IF Len(coord) < 2 THEN Raise("IndexError")
    ELSE Ok(transform_fwd(tgt_epsg_no, coord[1], coord[2]))

\* from_wgs84(coord, tgt_epsg_no): only coord[0] and coord[1] are read.
from_wgs84(coord, tgt_epsg_no) ==
    IF tgt_epsg_no \notin KnownCrs THEN Raise("CRSError")
    ELSE IF Len(coord) < 2 THEN Raise("IndexError")
    ELSE Ok(transform_fwd(tgt_epsg_no, coord[1], coord[2]))

\* A mutant of to_wgs84: the source system is a fixed one, EPSG:27700,
\* whatever number is supplied.
to_wgs84_fixed_crs(coord, src_epsg_no) ==
    IF src_epsg_no \notin KnownCrs THEN Raise("CRSError")
    ELSE IF Len(coord) < 2 THEN Raise("IndexError")
    ELSE Ok(transform_inv(27700, coord[1], coord[2]))

\* to_wgs84(coord, src_epsg_no)
to_wgs84(coord, src_epsg_no) ==
    IF src_epsg_no \notin KnownCrs THEN Raise("CRSError")
    ELSE IF Len(coord) < 2 THEN Raise("IndexError")
    ELSE Ok(transform_inv(src_epsg_no, coord[1], coord[2]))

\* A mutant of bbox_to_wgs84: the converted corners are put in order, the
\* smaller x and y first.
bbox_to_wgs84_ordered(bbox_coords, src_epsg_no) ==
    IF Len(bbox_coords) # 4 THEN Raise("ValueError")
    ELSE LET v1 == to_wgs84(<<bbox_coords[1], bbox_coords[2]>>, src_epsg_no)
             v2 == to_wgs84(<<bbox_coords[3], bbox_coords[4]>>, src_epsg_no)
             Min(a, b) == IF a <= b THEN a ELSE b
             Max(a, b) == IF a <= b THEN b ELSE a
         IN IF v1.exc # "" THEN v1
            ELSE IF v2.exc # "" THEN v2
            ELSE Ok(<<Min(v1.val[1], v2.val[1]), Min(v1.val[2], v2.val[2]),
                      Max(v1.val[1], v2.val[1]), Max(v1.val[2], v2.val[2])>>)

\* bbox_to_wgs84(bbox_coords, src_epsg_no): the two diagonal corners converted.
bbox_to_wgs84(bbox_coords, src_epsg_no) ==
    IF Len(bbox_coords) # 4 THEN Raise("ValueError")
    ELSE LET min_vertex == <<bbox_coords[1], bbox_coords[2]>>
             max_vertex == <<bbox_coords[3], bbox_coords[4]>>
             min_vertex_wgs84 == to_wgs84(min_vertex, src_epsg_no)
             max_vertex_wgs84 == to_wgs84(max_vertex, src_epsg_no)
         IN IF min_vertex_wgs84.exc # "" THEN min_vertex_wgs84
            ELSE IF max_vertex_wgs84.exc # "" THEN max_vertex_wgs84
            ELSE Ok(<<min_vertex_wgs84.val[1], min_vertex_wgs84.val[2],
                      max_vertex_wgs84.val[1], max_vertex_wgs84.val[2]>>)

-----------------------------------------------------------------------------
(* Site codes and paths *)

\* unidecode.unidecode, one character at a time.
Unidecode(ch) == IF ch = "é" THEN "e" ELSE ch

\* str.replace(' ', '_'), one character at a time.
ReplaceSpace(ch) == IF ch = " " THEN "_" ELSE ch

\* str.lower, one character at a time.
Lower(ch) ==
    CASE ch = "N" -> "n"
      [] ch = "S" -> "s"
      [] ch = "R" -> "r"
      [] OTHER    -> ch

RECURSIVE Join(_)
\* The string of a sequence of characters.
Join(chars) == IF chars = <<>> THEN "" ELSE Head(chars) \o Join(Tail(chars))

\* A mutant of sitecode: accents are not transliterated.
sitecode_no_unidecode(sitename) ==
    Join([n \in 1..Len(sitename) |-> Lower(ReplaceSpace(sitename[n]))])

\* sitecode of a row: unidecode, then ' ' -> '_', then lower case.
sitecode(sitename) ==
    Join([n \in 1..Len(sitename) |->
            Lower(ReplaceSpace(Unidecode(sitename[n])))])

\* The rows the registry is drawn from: sitename (a sequence of
\* characters), londd and latdd (degrees, fixed point).
SiteRows ==
    { [sitename |-> <<"N","a","v","a","r","r","é","s">>, londd |-> -3, latdd |-> 156],
      [sitename |-> <<"n","a","v","a","r","r","e","s">>, londd |-> 5, latdd |-> 160],
      [sitename |-> <<"S","a","n"," ","R","i","n","a">>, londd |-> -20, latdd |-> 168] }

\* The project root, from which the Makefile runs the notebook.
ProjectRoot == <<"", "agrosuccess-data">>
CwdSet == {ProjectRoot}

\* OUTPUT_DIR.resolve(): '../outputs' from dem-derived, 'outputs' otherwise.
OUTPUT_DIR(wd) ==
    IF wd[Len(wd)] = "dem-derived"
    THEN SubSeq(wd, 1, Len(wd) - 1) \o <<"outputs">>
    ELSE wd \o <<"outputs">>

\* site_dir = OUTPUT_DIR.resolve() / site_code
site_dir(wd, row) == OUTPUT_DIR(wd) \o <<sitecode(row.sitename)>>

\* os.path.join(os.getcwd(), site_dir / 'dem.tif'): the second path is
\* absolute, so it is the result.
final_fname(wd, row) == site_dir(wd, row) \o <<"dem.tif">>

\* A mutant of tmp_fname: the fetch is given the final path itself.
tmp_fname_is_final(fname) == fname

\* tmp_fname = fname + '.tmp'
tmp_fname(fname) ==
    SubSeq(fname, 1, Len(fname) - 1) \o <<fname[Len(fname)] \o ".tmp">>

\* A mutant of tif_name: elevation.clip is given the output path itself.
tif_name_is_output(wd, fname) == fname

\* tif_name = os.getcwd() + '/' + fname.split('/')[0] + '_tmp.tif'
tif_name(wd, fname) == wd \o <<Head(fname) \o "_tmp.tif">>

\* The directory holding a path.
Parent(path) == SubSeq(path, 1, Len(path) - 1)

-----------------------------------------------------------------------------
(* Disk, rasters and logs *)

\* A raster file: what it holds (kind), its reference system, its extent
\* and the extent of the raster it was made from.
Raster(kind, srs, extent, src) ==
    [kind |-> kind, srs |-> srs, extent |-> extent, src |-> src]

\* What an interrupted or failed writer leaves behind.
PartialRaster == Raster("partial", "", <<>>, <<>>)

NoFiles == [q \in {} |-> PartialRaster]

WriteFile(f, path, c) ==
    [q \in (DOMAIN f) \cup {path} |-> IF q = path THEN c ELSE f[q]]

RemoveFile(f, path) == [q \in (DOMAIN f) \ {path} |-> f[q]]

\* One file-system operation of the log.
Op(op, path, to, site) == [op |-> op, path |-> path, to |-> to, site |-> site]

\* An exception as the notebook reports it: its class (exc), the calls of
\* its traceback from the running cell inwards (tb), the paths its message
\* names (names), and the returncode and output attributes, which only a
\* CalledProcessError has (0 and "None" otherwise).
Exception(cls, tb, names) ==
    [exc |-> cls, tb |-> tb, names |-> names, returncode |-> 0, output |-> "None"]

\* subprocess.CalledProcessError(returncode, cmd) as check_call raises it:
\* check_call captures nothing, so output is None.
CalledProcessError(returncode, cmd, tb) ==
    [exc |-> "CalledProcessError", tb |-> tb, names |-> cmd,
     returncode |-> returncode, output |-> "None"]

\* The exception that ended the run, with the row (site) and the step of
\* the loop body (stage) the interpreter was at.
Ended(site, stage, e) ==
    [exc |-> e.exc, stage |-> stage, site |-> site, tb |-> e.tb,
     names |-> e.names, returncode |-> e.returncode, output |-> e.output]

NoErr == Ended(0, "", Exception("", <<>>, <<>>))
NoFetchL == [native_coords |-> <<>>, native_bbox |-> <<>>, wgs84_bbox |-> <<>>,
             tif_name |-> <<>>, fname |-> <<>>]
NoWarpL == [native_coords |-> <<>>, native_bbox |-> <<>>]
NoFirstRun == [set |-> FALSE, dirs |-> {}, files |-> NoFiles]
NoCall == [fn |-> "", area |-> 0, epsg |-> 0, p_coords |-> <<>>, a |-> 0,
           beta |-> 0, res |-> Raise(""), prev |-> <<>>]

\* str(x) of a number.
Str(x) == ToString(x)

\* A mutant of Abort: the exception is noted and swallowed, and the site is
\* reported as finished.
Abort_swallowed(site, stage, e) ==
    /\ pc' = "print"
    /\ err' = Ended(site, stage, e)

\* An exception leaves the running cell: nothing catches it.
Abort(site, stage, e) ==
    /\ pc' = "aborted"
    /\ err' = Ended(site, stage, e)

\* The site row the batch loop is at, and the arguments the loop hands to
\* get_elev_data for it.
row == sites[i]
p_coords_of(r) == <<r.londd, r.latdd>>

\* p_coords of the running get_elev_data call: the point of the row when the
\* loop calls it, the point given when it is called on its own.
site_point == IF call.fn = "get_elev_data" THEN call.p_coords ELSE p_coords_of(row)

-----------------------------------------------------------------------------
(* Initial state *)

RECURSIVE SeqsUpTo(_, _)
\* The sequences over S of length at most n.
SeqsUpTo(S, n) ==
    IF n = 0 THEN {<<>>}
    ELSE LET shorter == SeqsUpTo(S, n - 1)
         IN shorter \cup {Append(q, x) : q \in shorter, x \in S}

\* A registry holds a site name once.
NoRowTwice(q) == \A m, n \in DOMAIN q : q[m] = q[n] => m = n

\* The directories that exist before the notebook runs: the project root,
\* dem-derived and outputs (site_location_info.csv is read from it).
InitDirs ==
    {<<"">>, ProjectRoot, ProjectRoot \o <<"dem-derived">>, OUTPUT_DIR(ProjectRoot)}

Init ==
    /\ cwd \in CwdSet
    /\ sites \in {q \in SeqsUpTo(SiteRows, MaxSites) : NoRowTwice(q)}
    /\ tgt_crs \in CrsSet
    /\ exp_radius \in RadiusSet
    /\ beta \in BetaSet
    /\ entry = ""
    /\ pc = "idle"
    /\ i = 0
    /\ run = 0
    /\ dirs = InitDirs
    /\ files = NoFiles
    /\ cache = "clean"
    /\ fetchL = NoFetchL
    /\ warpL = NoWarpL
    /\ ops = <<>>
    /\ clips = <<>>
    /\ procs = <<>>
    /\ out = <<>>
    /\ err = NoErr
    /\ firstRun = NoFirstRun
    /\ call = NoCall

-----------------------------------------------------------------------------
(* The batch cell and get_elev_data *)

Line(text, fname) == [text |-> text, fname |-> fname]

\* The disk, as firstRun keeps it.
Disk(ds, fs) == [set |-> TRUE, dirs |-> ds, files |-> fs]

\* beta * 1.5, the buffer factor get_elev_data hands to the fetch.
fetch_beta(b) == (b * 3) \div 2

\* The batch cell starts: exp_radius is printed and the loop takes the first
\* row; with an empty registry the cell prints 'Done.' at once.
RunBatch ==
    /\ pc \in {"idle", "done", "aborted", "killed"}
    /\ run < MaxRuns
    /\ run' = run + 1
    /\ entry' = "batch"
    /\ ops' = <<>> /\ clips' = <<>> /\ procs' = <<>>
    /\ err' = NoErr /\ fetchL' = NoFetchL /\ warpL' = NoWarpL
    /\ IF sites = <<>>
       THEN /\ pc' = "done"
            /\ i' = 0
            /\ out' = <<Line("Downloading data", <<>>), Line("Done.", <<>>)>>
            /\ firstRun' = IF run = 0 THEN Disk(dirs, files) ELSE firstRun
       ELSE /\ pc' = "mkdir"
            /\ i' = 1
            /\ out' = <<Line("Downloading data", <<>>)>>
            /\ firstRun' = firstRun
    /\ UNCHANGED <<cwd, sites, tgt_crs, exp_radius, beta, dirs, files, cache, call>>

\* A mutant of mkdir_exist_ok: Path.mkdir() without exist_ok.
mkdir_no_exist_ok(ds, fs, d) ==
    IF d \in ds \/ d \in DOMAIN fs THEN Raise("FileExistsError")
    ELSE IF Parent(d) \notin ds THEN Raise("FileNotFoundError")
    ELSE Ok(ds \cup {d})

\* Path.mkdir(exist_ok=True) of directory d on a disk with directories ds and
\* files fs: the directories after it, or the exception.
mkdir_exist_ok(ds, fs, d) ==
    IF d \in ds THEN Ok(ds)
    ELSE IF d \in DOMAIN fs THEN Raise("FileExistsError")
    ELSE IF Parent(d) \notin ds THEN Raise("FileNotFoundError")
    ELSE Ok(ds \cup {d})

\* site_dir.mkdir(exist_ok=True); the operating system may refuse.
Mkdir ==
    /\ pc = "mkdir"
    /\ LET d == site_dir(cwd, row)
           r == mkdir_exist_ok(dirs, files, d)
       IN \E res \in {"ok", "OSError"} :
            IF res = "ok" /\ r.exc = ""
            THEN /\ dirs' = r.val
                 /\ ops' = Append(ops, Op("mkdir", d, <<>>, i))
                 /\ pc' = "clip"
                 /\ err' = err
            ELSE /\ Abort(i, "mkdir",
                          Exception(IF r.exc # "" THEN r.exc ELSE res,
                                    <<"mkdir">>, <<d>>))
                 /\ UNCHANGED <<dirs, ops>>
    /\ UNCHANGED <<cwd, sites, tgt_crs, exp_radius, beta, entry, i, run, files,
                   cache, fetchL, warpL, clips, procs, out, firstRun, call>>

\* A mutant of Clip: a failed retrieval is tried once more.
Clip_retries ==
    /\ pc = "clip"
    /\ LET fname == tmp_fname(final_fname(cwd, row))
           native_coords == from_wgs84(site_point, tgt_crs)
           native_bbox == study_site_bbox(native_coords.val, exp_radius,
                                          fetch_beta(beta))
           wgs84_bbox == bbox_to_wgs84(native_bbox.val, tgt_crs)
           tn == tif_name(cwd, fname)
           failed == IF native_coords.exc # "" THEN native_coords.exc
                     ELSE IF native_bbox.exc # "" THEN native_bbox.exc
                     ELSE wgs84_bbox.exc
           raised_in == IF native_coords.exc # "" THEN <<"from_wgs84">>
                        ELSE IF native_bbox.exc # "" THEN <<"study_site_bbox">>
                        ELSE <<"bbox_to_wgs84", "to_wgs84">>
           tb == <<"get_elev_data", "get_wgs84_elev_data">>
       IN IF failed # ""
          THEN /\ Abort(i, "fetch", Exception(failed, tb \o raised_in, <<>>))
               /\ UNCHANGED <<files, cache, fetchL, ops, clips>>
          ELSE /\ fetchL' = [native_coords |-> native_coords.val,
                             native_bbox |-> native_bbox.val,
                             wgs84_bbox |-> wgs84_bbox.val,
                             tif_name |-> tn, fname |-> fname]
               /\ clips' = Append(clips, [site |-> i, bounds |-> wgs84_bbox.val,
                                          output |-> tn])
               /\ \E res \in {"ok", "fail", "fail_partial"} :
                    CASE res = "ok" ->
                           /\ files' = WriteFile(files, tn,
                                  Raster("srtm", "EPSG:4326", wgs84_bbox.val, <<>>))
                           /\ ops' = Append(ops, Op("write", tn, <<>>, i))
                           /\ cache' = "populated"
                           /\ pc' = "rename"
                           /\ err' = err
                      [] res = "fail" ->
                           /\ cache' = "dirty"
                           /\ IF \A k \in DOMAIN clips : clips[k].site # i
                              THEN pc' = "clip" /\ err' = err
                              ELSE Abort(i, "fetch",
                                         Exception("RetrievalError",
                                                   tb \o <<"clip">>, <<tn>>))
                           /\ UNCHANGED <<files, ops>>
                      [] res = "fail_partial" ->
                           /\ files' = WriteFile(files, tn, PartialRaster)
                           /\ ops' = Append(ops, Op("write", tn, <<>>, i))
                           /\ cache' = "dirty"
                           /\ IF \A k \in DOMAIN clips : clips[k].site # i
                              THEN pc' = "clip" /\ err' = err
                              ELSE Abort(i, "fetch",
                                         Exception("RetrievalError",
                                                   tb \o <<"clip">>, <<tn>>))
    /\ UNCHANGED <<cwd, sites, tgt_crs, exp_radius, beta, entry, i, run, dirs,
                   warpL, procs, out, firstRun, call>>

\* get_wgs84_elev_data up to elevation.clip: the point is projected, the
\* buffered box is computed and converted back to WGS84, and the tiles are
\* retrieved into tif_name. The retrieval may fail, with or without a
\* partial file left at tif_name; a failure leaves the cache dirty.
Clip ==
    /\ pc = "clip"
    /\ LET fname == tmp_fname(final_fname(cwd, row))
           native_coords == from_wgs84(site_point, tgt_crs)
           native_bbox == study_site_bbox(native_coords.val, exp_radius,
                                          fetch_beta(beta))
           wgs84_bbox == bbox_to_wgs84(native_bbox.val, tgt_crs)
           tn == tif_name(cwd, fname)
           failed == IF native_coords.exc # "" THEN native_coords.exc
                     ELSE IF native_bbox.exc # "" THEN native_bbox.exc
                     ELSE wgs84_bbox.exc
           raised_in == IF native_coords.exc # "" THEN <<"from_wgs84">>
                        ELSE IF native_bbox.exc # "" THEN <<"study_site_bbox">>
                        ELSE <<"bbox_to_wgs84", "to_wgs84">>
           tb == <<"get_elev_data", "get_wgs84_elev_data">>
       IN IF failed # ""
          THEN /\ Abort(i, "fetch", Exception(failed, tb \o raised_in, <<>>))
               /\ UNCHANGED <<files, cache, fetchL, ops, clips>>
          ELSE /\ fetchL' = [native_coords |-> native_coords.val,
                             native_bbox |-> native_bbox.val,
                             wgs84_bbox |-> wgs84_bbox.val,
                             tif_name |-> tn, fname |-> fname]
               /\ clips' = Append(clips, [site |-> i, bounds |-> wgs84_bbox.val,
                                          output |-> tn])
               /\ \E res \in {"ok", "fail", "fail_partial"} :
                    CASE res = "ok" ->
                           /\ files' = WriteFile(files, tn,
                                  Raster("srtm", "EPSG:4326", wgs84_bbox.val, <<>>))
                           /\ ops' = Append(ops, Op("write", tn, <<>>, i))
                           /\ cache' = "populated"
                           /\ pc' = "rename"
                           /\ err' = err
                      [] res = "fail" ->
                           /\ cache' = "dirty"
                           /\ Abort(i, "fetch",
                                    Exception("RetrievalError",
                                              tb \o <<"clip">>, <<tn>>))
                           /\ UNCHANGED <<files, ops>>
                      [] res = "fail_partial" ->
                           /\ files' = WriteFile(files, tn, PartialRaster)
                           /\ ops' = Append(ops, Op("write", tn, <<>>, i))
                           /\ cache' = "dirty"
                           /\ Abort(i, "fetch",
                                    Exception("RetrievalError",
                                              tb \o <<"clip">>, <<tn>>))
    /\ UNCHANGED <<cwd, sites, tgt_crs, exp_radius, beta, entry, i, run, dirs,
                   warpL, procs, out, firstRun, call>>

\* A mutant of Rename: an existing destination is not replaced, the rename
\* raises FileExistsError.
Rename_no_replace ==
    /\ pc = "rename"
    /\ \E res \in {"ok", "OSError"} :
         IF res = "ok" /\ fetchL.tif_name \in DOMAIN files
                       /\ Parent(fetchL.fname) \in dirs
                       /\ fetchL.fname \notin DOMAIN files
         THEN /\ files' = WriteFile(RemoveFile(files, fetchL.tif_name),
                                    fetchL.fname, files[fetchL.tif_name])
              /\ ops' = Append(ops, Op("rename", fetchL.tif_name, fetchL.fname, i))
              /\ pc' = "clean"
              /\ err' = err
         ELSE /\ Abort(i, "fetch",
                       Exception(IF res = "ok" THEN "FileExistsError" ELSE res,
                                 <<"get_elev_data", "get_wgs84_elev_data",
                                   "rename">>,
                                 <<fetchL.tif_name, fetchL.fname>>))
              /\ UNCHANGED <<files, ops>>
    /\ UNCHANGED <<cwd, sites, tgt_crs, exp_radius, beta, entry, i, run, dirs,
                   cache, fetchL, warpL, clips, procs, out, firstRun, call>>

\* os.rename(tif_name, fname)
Rename ==
    /\ pc = "rename"
    /\ \E res \in {"ok", "OSError"} :
         IF res = "ok" /\ fetchL.tif_name \in DOMAIN files
                       /\ Parent(fetchL.fname) \in dirs
         THEN /\ files' = WriteFile(RemoveFile(files, fetchL.tif_name),
                                    fetchL.fname, files[fetchL.tif_name])
              /\ ops' = Append(ops, Op("rename", fetchL.tif_name, fetchL.fname, i))
              /\ pc' = "clean"
              /\ err' = err
         ELSE /\ Abort(i, "fetch",
                       Exception(IF res = "ok" THEN "FileNotFoundError" ELSE res,
                                 <<"get_elev_data", "get_wgs84_elev_data",
                                   "rename">>,
                                 <<fetchL.tif_name, fetchL.fname>>))
              /\ UNCHANGED <<files, ops>>
    /\ UNCHANGED <<cwd, sites, tgt_crs, exp_radius, beta, entry, i, run, dirs,
                   cache, fetchL, warpL, clips, procs, out, firstRun, call>>

\* elevation.clean()
Clean ==
    /\ pc = "clean"
    /\ cache' = "clean"
    /\ pc' = "warp"
    /\ UNCHANGED <<cwd, sites, tgt_crs, exp_radius, beta, entry, i, run, dirs,
                   files, fetchL, warpL, ops, clips, procs, out, err, firstRun,
                   call>>

\* A mutant of warp_param: -te is given as xmin xmax ymin ymax.
warp_param_te_order(in_fname, out_fname, native_crs_epsg_no, native_bbox) ==
    [prog |-> "gdalwarp", in_fname |-> in_fname, out_fname |-> out_fname,
     flags |-> <<"-overwrite">>,
     s_srs |-> "EPSG:4326",
     t_srs |-> "EPSG:" \o Str(native_crs_epsg_no),
     te |-> <<Str(native_bbox[1]), Str(native_bbox[3]),
              Str(native_bbox[2]), Str(native_bbox[4])>>]

\* The command line of gdalwarp as warp_elev_data builds it.
warp_param(in_fname, out_fname, native_crs_epsg_no, native_bbox) ==
    [prog |-> "gdalwarp", in_fname |-> in_fname, out_fname |-> out_fname,
     flags |-> <<"-overwrite">>,
     s_srs |-> "EPSG:4326",
     t_srs |-> "EPSG:" \o Str(native_crs_epsg_no),
     te |-> <<Str(native_bbox[1]), Str(native_bbox[2]),
              Str(native_bbox[3]), Str(native_bbox[4])>>]

\* The non-zero exit statuses of a failing gdalwarp.
ExitSet == {1, 2}

\* What a failing gdalwarp writes to its standard error, which check_call
\* leaves connected to the notebook's.
Diagnostics == "ERROR 4: No such file or directory"

\* An external process that ran: the row it ran for, its command line, its
\* exit status and what it wrote to its standard error.
Process(site, param, returncode, stderr) ==
    [site |-> site, param |-> param, returncode |-> returncode,
     stderr |-> stderr]

\* warp_elev_data(in_fname, out_fname, native_crs_epsg_no, p_coords, a, beta)
\* called for row number site, after the operations ops0 and the processes
\* procs0: the point is projected, the box computed and gdalwarp started by
\* subprocess.check_call. gdalwarp exits 0 only if it can read its input
\* and write into the output's directory; when it fails it leaves the
\* output as it was or partially written.
WarpStep(site, in_fname, out_fname, native_crs_epsg_no, p_coords, a, b, ops0, procs0, okpc) ==
    LET native_coords == from_wgs84(p_coords, native_crs_epsg_no)
        native_bbox == study_site_bbox(native_coords.val, a, b)
        failed == IF native_coords.exc # "" THEN native_coords.exc
                  ELSE native_bbox.exc
        raised_in == IF native_coords.exc # "" THEN <<"from_wgs84">>
                     ELSE <<"study_site_bbox">>
        tb == IF okpc = "remove" THEN <<"get_elev_data", "warp_elev_data">>
              ELSE <<"warp_elev_data">>
    IN IF failed # ""
       THEN /\ Abort(site, "warp", Exception(failed, tb \o raised_in, <<>>))
            /\ warpL' = NoWarpL
            /\ files' = files /\ ops' = ops0 /\ procs' = procs0
       ELSE LET param == warp_param(in_fname, out_fname, native_crs_epsg_no,
                                    native_bbox.val)
                readable == /\ in_fname \in DOMAIN files
                            /\ files[in_fname].kind # "partial"
                writable == Parent(out_fname) \in dirs
                raised(returncode) ==
                    CalledProcessError(returncode, <<in_fname, out_fname>>,
                                       tb \o <<"check_call">>)
            IN /\ warpL' = [native_coords |-> native_coords.val,
                            native_bbox |-> native_bbox.val]
               /\ \E res \in {"ok", "fail", "fail_partial"}, status \in ExitSet :
                    CASE res = "ok" /\ readable /\ writable ->
                           /\ procs' = Append(procs0,
                                  Process(site, param, 0, ""))
                           /\ files' = WriteFile(files, out_fname,
                                  Raster("dem", param.t_srs, native_bbox.val,
                                         files[in_fname].extent))
                           /\ ops' = ops0 \o <<Op("read", in_fname, <<>>, site),
                                               Op("write", out_fname, <<>>, site)>>
                           /\ pc' = okpc
                           /\ err' = NoErr
                      [] res = "fail_partial" /\ readable /\ writable ->
                           /\ procs' = Append(procs0,
                                  Process(site, param, status, Diagnostics))
                           /\ files' = WriteFile(files, out_fname, PartialRaster)
                           /\ ops' = ops0 \o <<Op("read", in_fname, <<>>, site),
                                               Op("write", out_fname, <<>>, site)>>
                           /\ Abort(site, "warp", raised(status))
                      [] OTHER ->
                           /\ procs' = Append(procs0,
                                  Process(site, param, status, Diagnostics))
                           /\ files' = files /\ ops' = ops0
                           /\ Abort(site, "warp", raised(status))

\* A mutant of warp_beta: the inflated factor of the fetch is used again.
warp_beta_inflated(b) == fetch_beta(b)

\* The buffer factor get_elev_data hands to warp_elev_data: beta itself.
warp_beta(b) == b

\* warp_elev_data(tmp_fname, fname, ...) as get_elev_data calls it.
Warp ==
    /\ pc = "warp"
    /\ WarpStep(i, tmp_fname(final_fname(cwd, row)), final_fname(cwd, row),
                tgt_crs, site_point, exp_radius, warp_beta(beta),
                ops, procs, "remove")
    /\ UNCHANGED <<cwd, sites, tgt_crs, exp_radius, beta, entry, i, run, dirs,
                   cache, fetchL, clips, out, firstRun, call>>

\* A mutant of Remove: the temporary raster is left on disk.
Remove_keeps_file ==
    /\ pc = "remove"
    /\ pc' = "print"
    /\ UNCHANGED <<cwd, sites, tgt_crs, exp_radius, beta, entry, i, run, dirs,
                   files, cache, fetchL, warpL, ops, clips, procs, out, err,
                   firstRun, call>>

\* os.remove(tmp_fname)
Remove ==
    /\ pc = "remove"
    /\ LET tmp == tmp_fname(final_fname(cwd, row))
       IN \E res \in {"ok", "OSError"} :
            IF res = "ok" /\ tmp \in DOMAIN files
            THEN /\ files' = RemoveFile(files, tmp)
                 /\ ops' = Append(ops, Op("remove", tmp, <<>>, i))
                 /\ pc' = "print"
                 /\ err' = err
            ELSE /\ Abort(i, "remove",
                          Exception(IF res = "ok" THEN "FileNotFoundError"
                                    ELSE res,
                                    <<"get_elev_data", "remove">>, <<tmp>>))
                 /\ UNCHANGED <<files, ops>>
    /\ UNCHANGED <<cwd, sites, tgt_crs, exp_radius, beta, entry, i, run, dirs,
                   cache, fetchL, warpL, clips, procs, out, firstRun, call>>

\* A mutant of Finish: the loop goes on without the completion line.
Finish_no_signal ==
    /\ pc = "print"
    /\ IF i < Len(sites)
       THEN /\ out' = out
            /\ i' = i + 1
            /\ pc' = "mkdir"
            /\ firstRun' = firstRun
       ELSE /\ out' = Append(out, Line("Done.", <<>>))
            /\ i' = i
            /\ pc' = "done"
            /\ firstRun' = IF run = 1 THEN Disk(dirs, files) ELSE firstRun
    /\ fetchL' = NoFetchL
    /\ warpL' = NoWarpL
    /\ UNCHANGED <<cwd, sites, tgt_crs, exp_radius, beta, entry, run, dirs, files,
                   cache, ops, clips, procs, err, call>>

\* print('Finished processing ' + fname) ends get_elev_data; the loop takes
\* the next row, or the cell prints 'Done.' after the last one.
Finish ==
    /\ pc = "print"
    /\ LET line == Line("Finished processing ", final_fname(cwd, row))
       IN IF entry # "batch"
          THEN /\ out' = Append(out, line)
               /\ i' = i
               /\ pc' = "done"
               /\ firstRun' = firstRun
          ELSE IF i < Len(sites)
          THEN /\ out' = Append(out, line)
               /\ i' = i + 1
               /\ pc' = "mkdir"
               /\ firstRun' = firstRun
          ELSE /\ out' = out \o <<line, Line("Done.", <<>>)>>
               /\ i' = i
               /\ pc' = "done"
               /\ firstRun' = IF run = 1 THEN Disk(dirs, files) ELSE firstRun
    /\ fetchL' = NoFetchL
    /\ warpL' = NoWarpL
    /\ UNCHANGED <<cwd, sites, tgt_crs, exp_radius, beta, entry, run, dirs, files,
                   cache, ops, clips, procs, err, call>>

\* warp_elev_data called on its own, outside get_elev_data, for a row of
\* the registry with the session's arguments.
DirectWarp ==
    /\ pc \in {"idle", "done", "aborted", "killed"}
    /\ run < MaxRuns
    /\ run' = run + 1
    /\ entry' = "warp"
    /\ clips' = <<>> /\ out' = <<>> /\ fetchL' = NoFetchL
    /\ \E n \in 1..Len(sites) :
         /\ i' = n
         /\ WarpStep(n, tmp_fname(final_fname(cwd, sites[n])),
                     final_fname(cwd, sites[n]), tgt_crs, p_coords_of(sites[n]),
                     exp_radius, beta, <<>>, <<>>, "done")
    /\ UNCHANGED <<cwd, sites, tgt_crs, exp_radius, beta, dirs, cache, firstRun,
                   call>>

\* The notebook's process is terminated between two steps of the batch:
\* the disk and the tile cache stay as they are. (Terminated inside the
\* retrieval or inside gdalwarp, it leaves what a failure of that step with
\* a partial file leaves.)
Terminate ==
    /\ entry = "batch"
    /\ pc \in {"mkdir", "clip", "rename", "clean", "warp", "remove", "print"}
    /\ pc' = "killed"
    /\ UNCHANGED <<cwd, sites, tgt_crs, exp_radius, beta, entry, i, run, dirs,
                   files, cache, fetchL, warpL, ops, clips, procs, out, err,
                   firstRun, call>>

Next ==
    \/ RunBatch
    \/ Mkdir
    \/ Clip
    \/ Rename
    \/ Clean
    \/ Warp
    \/ Remove
    \/ Finish
    \/ DirectWarp
    \/ Terminate

Spec == Init /\ [][Next]_vars

-----------------------------------------------------------------------------
(* Direct calls of the pure functions *)

\* Bounds of the arguments of the direct calls.
CallCoordSet == {-5, 0, 7}
CallRadiusSet == {-One, 0, One, 3 * One}
CallBetaSet == {-2 * One, -One, -2, 0, 2, One, 2 * One}
MaxDim == 3

InitCalls ==
    /\ cwd = ProjectRoot
    /\ sites = <<>>
    /\ tgt_crs = 2062
    /\ exp_radius = One
    /\ beta = One
    /\ entry = "calls"
    /\ pc = "calls"
    /\ i = 0
    /\ run = 0
    /\ dirs = InitDirs
    /\ files = NoFiles
    /\ cache = "clean"
    /\ fetchL = NoFetchL
    /\ warpL = NoWarpL
    /\ ops = <<>>
    /\ clips = <<>>
    /\ procs = <<>>
    /\ out = <<>>
    /\ err = NoErr
    /\ firstRun = NoFirstRun
    /\ call = NoCall

\* study_site_bbox(p_coords, a, beta) called with any arguments.
CallStudySiteBbox ==
    /\ pc = "calls"
    /\ \E p \in SeqsUpTo(CallCoordSet, MaxDim), a \in CallRadiusSet,
          b \in CallBetaSet :
         call' = [fn |-> "study_site_bbox", area |-> 0, epsg |-> 0,
                  p_coords |-> p,
                  a |-> a, beta |-> b, res |-> study_site_bbox(p, a, b),
                  prev |-> <<>>]
    /\ pc' = "called"
    /\ UNCHANGED <<cwd, sites, tgt_crs, exp_radius, beta, entry, i, run, dirs,
                   files, cache, fetchL, warpL, ops, clips, procs, out, err,
                   firstRun>>

\* Areas handed to experimental_zone_radius: the batch cell's 30 km^2 in
\* square metres, smaller positive ones, zero and negative ones.
BatchArea == 30000000
AreaSet == {-BatchArea, -1, 0, 1, 100, 7854, BatchArea}

\* exp_radius = experimental_zone_radius(area)
CallExperimentalZoneRadius ==
    /\ pc = "calls"
    /\ \E area \in AreaSet :
         call' = [fn |-> "experimental_zone_radius", area |-> area, epsg |-> 0,
                  p_coords |-> <<>>, a |-> 0, beta |-> 0,
                  res |-> experimental_zone_radius(area), prev |-> <<>>]
    /\ pc' = "radius"
    /\ UNCHANGED <<cwd, sites, tgt_crs, exp_radius, beta, entry, i, run, dirs,
                   files, cache, fetchL, warpL, ops, clips, procs, out, err,
                   firstRun>>

\* study_site_bbox called, as the pipeline calls it, with the radius
\* experimental_zone_radius returned for a non-negative area.
CallBboxOfRadius ==
    /\ pc = "radius"
    /\ call.area >= 0
    /\ \E p \in SeqsUpTo(CallCoordSet, 2) \ SeqsUpTo(CallCoordSet, 1),
          b \in CallBetaSet :
         call' = [fn |-> "study_site_bbox", area |-> call.area, epsg |-> 0,
                  p_coords |-> p,
                  a |-> call.res.val, beta |-> b,
                  res |-> study_site_bbox(p, call.res.val, b), prev |-> <<>>]
    /\ pc' = "called"
    /\ UNCHANGED <<cwd, sites, tgt_crs, exp_radius, beta, entry, i, run, dirs,
                   files, cache, fetchL, warpL, ops, clips, procs, out, err,
                   firstRun>>

\* study_site_bbox called once more for the same point and radius with
\* another buffer factor; prev keeps the earlier factor and result.
CallStudySiteBboxAgain ==
    /\ pc = "called"
    /\ call.fn = "study_site_bbox"
    /\ \E b \in CallBetaSet :
         call' = [call EXCEPT !.beta = b,
                              !.res = study_site_bbox(call.p_coords, call.a, b),
                              !.prev = <<[fn |-> call.fn,
                                          p_coords |-> call.p_coords,
                                          beta |-> call.beta,
                                          res |-> call.res]>>]
    /\ pc' = "compared"
    /\ UNCHANGED <<cwd, sites, tgt_crs, exp_radius, beta, entry, i, run, dirs,
                   files, cache, fetchL, warpL, ops, clips, procs, out, err,
                   firstRun>>

\* Coordinates handed to the conversions: longitudes, latitudes and
\* projected coordinates, among them a latitude of 150 degrees.
ConvCoordSet == {-20, 5, 157, 601}

\* from_wgs84(coord, tgt_epsg_no) called with any point and EPSG number.
CallFromWgs84 ==
    /\ pc = "calls"
    /\ \E x, y \in ConvCoordSet, epsg_no \in CrsSet :
         call' = [fn |-> "from_wgs84", area |-> 0, epsg |-> epsg_no,
                  p_coords |-> <<x, y>>, a |-> 0, beta |-> 0,
                  res |-> from_wgs84(<<x, y>>, epsg_no), prev |-> <<>>]
    /\ pc' = "converted"
    /\ UNCHANGED <<cwd, sites, tgt_crs, exp_radius, beta, entry, i, run, dirs,
                   files, cache, fetchL, warpL, ops, clips, procs, out, err,
                   firstRun>>

\* to_wgs84(coord, src_epsg_no) called with any point and EPSG number.
CallToWgs84 ==
    /\ pc = "calls"
    /\ \E x, y \in ConvCoordSet, epsg_no \in CrsSet :
         call' = [fn |-> "to_wgs84", area |-> 0, epsg |-> epsg_no,
                  p_coords |-> <<x, y>>, a |-> 0, beta |-> 0,
                  res |-> to_wgs84(<<x, y>>, epsg_no), prev |-> <<>>]
    /\ pc' = "converted"
    /\ UNCHANGED <<cwd, sites, tgt_crs, exp_radius, beta, entry, i, run, dirs,
                   files, cache, fetchL, warpL, ops, clips, procs, out, err,
                   firstRun>>

\* The point a conversion returned is converted back by the other
\* conversion, with the same EPSG number; prev keeps the first call.
CallConvertBack ==
    /\ pc = "converted"
    /\ call.res.exc = ""
    /\ LET back == IF call.fn = "from_wgs84" THEN "to_wgs84" ELSE "from_wgs84"
           res == IF call.fn = "from_wgs84"
                  THEN to_wgs84(call.res.val, call.epsg)
                  ELSE from_wgs84(call.res.val, call.epsg)
       IN call' = [call EXCEPT !.fn = back,
                               !.p_coords = call.res.val,
                               !.res = res,
                               !.prev = <<[fn |-> call.fn,
                                           p_coords |-> call.p_coords,
                                           beta |-> call.beta,
                                           res |-> call.res]>>]
    /\ pc' = "roundtrip"
    /\ UNCHANGED <<cwd, sites, tgt_crs, exp_radius, beta, entry, i, run, dirs,
                   files, cache, fetchL, warpL, ops, clips, procs, out, err,
                   firstRun>>

\* Longest box handed to bbox_to_wgs84.
MaxBoxLen == 5

\* bbox_to_wgs84(bbox_coords, src_epsg_no) called with any box and EPSG
\* number.
CallBboxToWgs84 ==
    /\ pc = "calls"
    /\ \E b \in SeqsUpTo(ConvCoordSet \ {5}, MaxBoxLen), epsg_no \in CrsSet :
         call' = [fn |-> "bbox_to_wgs84", area |-> 0, epsg |-> epsg_no,
                  p_coords |-> b, a |-> 0, beta |-> 0,
                  res |-> bbox_to_wgs84(b, epsg_no), prev |-> <<>>]
    /\ pc' = "called"
    /\ UNCHANGED <<cwd, sites, tgt_crs, exp_radius, beta, entry, i, run, dirs,
                   files, cache, fetchL, warpL, ops, clips, procs, out, err,
                   firstRun>>

NextCalls ==
    \/ CallFromWgs84
    \/ CallBboxToWgs84
    \/ CallToWgs84
    \/ CallConvertBack
    \/ CallStudySiteBbox
    \/ CallExperimentalZoneRadius
    \/ CallBboxOfRadius
    \/ CallStudySiteBboxAgain

SpecCalls == InitCalls /\ [][NextCalls]_vars

-----------------------------------------------------------------------------
(* Claims about study_site_bbox, checked under SpecCalls *)

BboxCalled == call.fn = "study_site_bbox"

\* C1: for every 2-component point (x, y), radius a and buffer factor beta,
\* study_site_bbox returns [x - delta, y - delta, x + delta, y + delta] with
\* delta = a * (1 + beta): the box is square, centred on the point, and for
\* beta = 0 its half-width is the radius.
C1_BboxIsSquareAroundPoint ==
    (BboxCalled /\ Len(call.p_coords) = 2) =>
        LET x == call.p_coords[1]
            y == call.p_coords[2]
            delta == (call.a * (One + call.beta)) \div One
            box == call.res.val
        IN /\ call.res.exc = ""
           /\ box = <<x - delta, y - delta, x + delta, y + delta>>
           /\ box[3] - box[1] = box[4] - box[2]
           /\ box[1] + box[3] = 2 * x
           /\ box[2] + box[4] = 2 * y
           /\ (call.beta = 0 => box[3] - box[1] = 2 * call.a)

\* A box was returned for a 2-component point, a positive radius and beta = 0.
C1_Witness ==
    /\ BboxCalled
    /\ Len(call.p_coords) = 2
    /\ call.a > 0
    /\ call.beta = 0
    /\ call.res.exc = ""
    /\ call.res.val[3] - call.res.val[1] = 2 * call.a

\* C2 as stated: for every 2-component point and positive radius, whatever
\* the buffer factor, the box has min_x < max_x and min_y < max_y.
C2_AnyBetaOrdered ==
    (BboxCalled /\ Len(call.p_coords) = 2 /\ call.a > 0) =>
        /\ call.res.exc = ""
        /\ call.res.val[1] < call.res.val[3]
        /\ call.res.val[2] < call.res.val[4]

\* C2, amended: for every 2-component point, positive radius and buffer
\* factor greater than -1, the box has min_x < max_x and min_y < max_y.
C2_BetaAboveMinusOneOrdered ==
    (BboxCalled /\ Len(call.p_coords) = 2 /\ call.a > 0 /\ call.beta > -One) =>
        /\ call.res.exc = ""
        /\ call.res.val[1] < call.res.val[3]
        /\ call.res.val[2] < call.res.val[4]

\* An ordered box was returned for a negative buffer factor above -1.
C2_Witness ==
    /\ BboxCalled
    /\ Len(call.p_coords) = 2
    /\ call.a > 0
    /\ call.beta > -One
    /\ call.beta < 0
    /\ call.res.exc = ""
    /\ call.res.val[1] < call.res.val[3]

\* C8: study_site_bbox called with a point that has not exactly 2 components
\* fails with the dimension error (ValueError) and returns no box.
C8_WrongDimensionRaises ==
    (BboxCalled /\ Len(call.p_coords) # 2) =>
        /\ call.res.exc = "ValueError"
        /\ call.res.val = <<>>

\* A 3-component point was refused.
C8_Witness ==
    /\ BboxCalled
    /\ Len(call.p_coords) = 3
    /\ call.res.exc = "ValueError"

-----------------------------------------------------------------------------
(* Claims about get_elev_data and the batch cell, checked under Spec *)

\* The site code of row number n of the registry.
SiteCode(n) == sitecode(sites[n].sitename)

\* The site point of row number n, projected into the target system.
ProjectedPoint(n) == transform_fwd(tgt_crs, sites[n].londd, sites[n].latdd)

\* path is dir or lies below it.
Under(path, dir) ==
    /\ Len(path) >= Len(dir)
    /\ SubSeq(path, 1, Len(dir)) = dir

\* Both boxes of the current get_elev_data call have been computed.
BothBoxesComputed ==
    /\ entry = "batch"
    /\ fetchL # NoFetchL
    /\ warpL # NoWarpL

\* The fetch box and the crop box are centred on the projected site point,
\* the fetch box has half-width a * (1 + 1.5 * beta) and the crop box, the
\* extent given to gdalwarp, has half-width a * (1 + beta).
BoxesAsComputed ==
    LET F == fetchL.native_bbox
        W == warpL.native_bbox
        c == ProjectedPoint(i)
    IN /\ F[1] + F[3] = 2 * c[1] /\ F[2] + F[4] = 2 * c[2]
       /\ W[1] + W[3] = 2 * c[1] /\ W[2] + W[4] = 2 * c[2]
       /\ 2 * (F[3] - F[1]) = exp_radius * (4 + 6 * (beta \div One))
       /\ 2 * (F[4] - F[2]) = exp_radius * (4 + 6 * (beta \div One))
       /\ W[3] - W[1] = exp_radius * (2 + 2 * (beta \div One))
       /\ W[4] - W[2] = exp_radius * (2 + 2 * (beta \div One))
       /\ procs[Len(procs)].param.te = <<Str(W[1]), Str(W[2]), Str(W[3]), Str(W[4])>>

\* The fetch box is strictly wider than the crop box and contains it.
FetchOverCoversCrop ==
    LET F == fetchL.native_bbox
        W == warpL.native_bbox
    IN /\ F[3] - F[1] > W[3] - W[1]
       /\ F[4] - F[2] > W[4] - W[2]
       /\ F[1] < W[1] /\ F[2] < W[2] /\ W[3] < F[3] /\ W[4] < F[4]

\* C3 as stated, at the buffer factors that are not negative: in
\* get_elev_data, for every positive radius and every such buffer factor,
\* the fetch box and the crop box share the projected site point as centre,
\* the crop uses the original beta, and the fetch half-width is strictly
\* greater than the crop half-width.
C3_FetchOverCoversForAnyBeta ==
    (BothBoxesComputed /\ exp_radius > 0 /\ beta >= 0) =>
        (BoxesAsComputed /\ FetchOverCoversCrop)

\* C3, amended: the same, with the strict over-cover for every positive
\* radius and every positive buffer factor.
C3_FetchOverCoversForPositiveBeta ==
    (BothBoxesComputed /\ exp_radius > 0) =>
        /\ BoxesAsComputed
        /\ (beta > 0 => FetchOverCoversCrop)

\* A site was fetched and warped with a positive radius and buffer factor.
C3_Witness ==
    /\ BothBoxesComputed
    /\ pc = "remove"
    /\ exp_radius > 0
    /\ beta > 0
    /\ FetchOverCoversCrop


\* A stage of the batch failed in this run.
StageFailed == entry = "batch" /\ err.exc # ""

\* The completion signals printed in this run.
FinishedLines == SelectSeq(out, LAMBDA l : l.text = "Finished processing ")

\* Row number n was processed to its end in this run.
Completed(n) ==
    /\ n <= Len(FinishedLines)
    /\ FinishedLines[n].fname = OUTPUT_DIR(cwd) \o <<SiteCode(n), "dem.tif">>

\* The final raster of row number n is on disk, whole.
HasFinalRaster(n) ==
    LET fin == OUTPUT_DIR(cwd) \o <<SiteCode(n), "dem.tif">>
    IN fin \in DOMAIN files /\ files[fin].kind = "dem"

\* No operation of this run touched the directory of row number n.
Untouched(n) ==
    \A k \in DOMAIN ops :
        /\ ~Under(ops[k].path, OUTPUT_DIR(cwd) \o <<SiteCode(n)>>)
        /\ ~Under(ops[k].to, OUTPUT_DIR(cwd) \o <<SiteCode(n)>>)

\* After a failure at row k: the run is over, no later stage of row k ran,
\* the completion signals are those of the rows before k, and nothing was
\* done on behalf of a later row.
AbortedAt(k) ==
    /\ pc = "aborted"
    /\ err.stage = "mkdir" =>
          /\ \A n \in DOMAIN ops : ops[n].site # k
          /\ \A n \in DOMAIN clips : clips[n].site # k
    /\ err.stage \in {"mkdir", "fetch"} =>
          /\ \A n \in DOMAIN procs : procs[n].site # k
          /\ \A n \in DOMAIN ops : ops[n].site = k => ops[n].op # "read"
    /\ err.stage \in {"mkdir", "fetch", "warp"} =>
          \A n \in DOMAIN ops : ops[n].site = k => ops[n].op # "remove"
    /\ Len(FinishedLines) = k - 1
    /\ \A n \in 1..(k - 1) : Completed(n)
    /\ \A n \in DOMAIN ops : ops[n].site <= k
    /\ \A n \in DOMAIN clips : clips[n].site <= k
    /\ \A n \in DOMAIN procs : procs[n].site <= k

\* The directory of row number n was not made for an earlier row or for
\* the failing one.
OwnDirectory(n) == \A m \in 1..err.site : SiteCode(m) # SiteCode(n)

FinalPath(n) == <<"", "agrosuccess-data", "outputs", SiteCode(n), "dem.tif">>
TmpPath(n) == <<"", "agrosuccess-data", "outputs", SiteCode(n), "dem.tif.tmp">>

\* The crop box of row number n: the square of half-width a * (1 + beta)
\* around its projected point.
CropBox(n) ==
    LET c == ProjectedPoint(n)
        d == exp_radius + exp_radius * (beta \div One)
    IN <<c[1] - d, c[2] - d, c[1] + d, c[2] + d>>

\* Row number n is the last row of the registry with its site code.
LastWithCode(n) == \A m \in (n + 1)..Len(sites) : SiteCode(m) # SiteCode(n)

\* The disk after a complete batch: the site directories next to the
\* directories of the start, one final raster per site code with the target
\* reference system and the crop extent, and no other file.
DiskOfCompleteBatch ==
    /\ dirs = InitDirs \cup
              {<<"", "agrosuccess-data", "outputs", SiteCode(n)>> : n \in DOMAIN sites}
    /\ DOMAIN files = {FinalPath(n) : n \in DOMAIN sites}
    /\ \A n \in DOMAIN sites :
          /\ files[FinalPath(n)].kind = "dem"
          /\ files[FinalPath(n)].srs = "EPSG:" \o ToString(tgt_crs)
          /\ LastWithCode(n) => files[FinalPath(n)].extent = CropBox(n)

\* The failures of the collaborators and of the operating system.
CollaboratorFailures == {"RetrievalError", "CalledProcessError", "OSError"}

\* C5: a second run of the batch after a complete first one, with the same
\* inputs, raises nothing of its own (it ends early only when a
\* collaborator fails) and, complete, leaves the disk as the first run left
\* it: the same site directories, one final raster per site with the same
\* extent and reference system, and no temporary raster.
C5_SecondRunSameDisk ==
    (firstRun.set /\ run = 2 /\ entry = "batch") =>
        /\ pc = "aborted" => err.exc \in CollaboratorFailures
        /\ pc = "done" =>
              /\ dirs = firstRun.dirs
              /\ files = firstRun.files
              /\ DiskOfCompleteBatch

\* Two complete runs over a registry of two sites.
C5_Witness ==
    /\ firstRun.set
    /\ run = 2
    /\ entry = "batch"
    /\ pc = "done"
    /\ Len(sites) = 2
    /\ DiskOfCompleteBatch

\* The places in the log of the operations op of row number n on path.
OpsOn(n, op, path) ==
    {k \in DOMAIN ops : ops[k].site = n /\ ops[k].op = op /\ ops[k].path = path}

\* The places in the log where row number n renames a file to path.
RenamesTo(n, path) ==
    {k \in DOMAIN ops : ops[k].site = n /\ ops[k].op = "rename" /\ ops[k].to = path}

\* C6: when the pipeline of a site has completed, its temporary raster was
\* created by the fetch stage, read once by the warp stage and then
\* deleted: no temporary raster of the site exists, its directory holds the
\* final raster at the path keyed by its code and nothing else, and no
\* temporary path is a final path.
C6_TemporaryRasterLifecycle ==
    (entry = "batch" /\ pc = "print") =>
        /\ TmpPath(i) \notin DOMAIN files
        /\ FinalPath(i) \in DOMAIN files
        /\ files[FinalPath(i)].kind = "dem"
        /\ {q \in DOMAIN files : Parent(q) = Parent(FinalPath(i))} = {FinalPath(i)}
        /\ Cardinality(RenamesTo(i, TmpPath(i))) = 1
        /\ Cardinality(OpsOn(i, "read", TmpPath(i))) = 1
        /\ Cardinality(OpsOn(i, "remove", TmpPath(i))) = 1
        /\ \A c \in RenamesTo(i, TmpPath(i)), r \in OpsOn(i, "read", TmpPath(i)),
              d \in OpsOn(i, "remove", TmpPath(i)) : c < r /\ r < d
        /\ \A m, n \in DOMAIN sites :
              tmp_fname(final_fname(cwd, sites[m])) # final_fname(cwd, sites[n])

\* The pipeline of the second site of the registry has completed.
C6_Witness ==
    /\ entry = "batch"
    /\ pc = "print"
    /\ i = 2
    /\ FinalPath(2) \in DOMAIN files
    /\ TmpPath(2) \notin DOMAIN files

\* The places in the log where a file is written: a write, or a rename
\* (which writes its destination).
Writes == {k \in DOMAIN ops : ops[k].op \in {"write", "rename"}}
WrittenPath(k) == IF ops[k].op = "rename" THEN ops[k].to ELSE ops[k].path

\* C7: every file written while a site is processed is at a path of that
\* site: no path written for one site is written for a site with another
\* site code.
C7_WrittenPathsSiteScoped ==
    \A m, n \in Writes :
        SiteCode(ops[m].site) # SiteCode(ops[n].site) =>
            WrittenPath(m) # WrittenPath(n)

\* C9: warp_elev_data never starts gdalwarp with a target extent whose
\* min_x is greater than its max_x.
C9_ReversedExtentRejected ==
    ~ /\ warpL # NoWarpL
      /\ warpL.native_bbox[1] > warpL.native_bbox[3]
      /\ procs # <<>>
      /\ procs[Len(procs)].param.te[1] = Str(warpL.native_bbox[1])
      /\ procs[Len(procs)].param.te[3] = Str(warpL.native_bbox[3])

\* The command line C10 expects for row number n.
ExpectedParam(n) ==
    [prog |-> "gdalwarp", in_fname |-> TmpPath(n), out_fname |-> FinalPath(n),
     flags |-> <<"-overwrite">>,
     s_srs |-> "EPSG:4326",
     t_srs |-> "EPSG:" \o ToString(tgt_crs),
     te |-> <<ToString(CropBox(n)[1]), ToString(CropBox(n)[2]),
              ToString(CropBox(n)[3]), ToString(CropBox(n)[4])>>]

\* The warp of the current call has started its process.
WarpReachedProcess ==
    \/ entry = "batch" /\ pc \in {"remove", "print"}
    \/ entry = "batch" /\ pc = "aborted" /\ err.stage = "remove"
    \/ entry \in {"batch", "warp"} /\ pc = "aborted" /\ err.stage = "warp"
          /\ err.exc = "CalledProcessError"
    \/ entry = "warp" /\ pc = "done"

\* C10: warp_elev_data starts gdalwarp once, with the input path, the
\* output path, -overwrite, source system EPSG:4326, the supplied target
\* system, and as target extent the box around the projected site point
\* computed with the original buffer factor.
C10_WarpInvocation ==
    /\ \A k \in DOMAIN procs : procs[k].param = ExpectedParam(procs[k].site)
    /\ \A k, l \in DOMAIN procs : procs[k].site = procs[l].site => k = l
    /\ WarpReachedProcess => \E k \in DOMAIN procs : procs[k].site = i

\* gdalwarp was started for the second site, with target system 27700.
C10_Witness ==
    /\ entry = "batch"
    /\ pc = "remove"
    /\ i = 2
    /\ tgt_crs = 27700
    /\ Len(procs) = 2
    /\ procs[2].param = ExpectedParam(2)

-----------------------------------------------------------------------------
(* Claims about errors, the tile cache and the site codes, checked under Spec *)

\* gdalwarp exited with a non-zero status in the current warp_elev_data call.
WarpProcessFailed ==
    /\ pc = "aborted"
    /\ err.stage = "warp"
    /\ procs # <<>>
    /\ procs[Len(procs)].site = err.site
    /\ procs[Len(procs)].returncode # 0

\* C11: when gdalwarp exits with a non-zero status, warp_elev_data fails with
\* an error that carries the exit status of the process and the diagnostic
\* output the process wrote.
C11_WarpErrorCarriesStatusAndOutput ==
    WarpProcessFailed =>
        /\ err.exc = "CalledProcessError"
        /\ err.returncode = procs[Len(procs)].returncode
        /\ err.output = procs[Len(procs)].stderr

\* The current get_wgs84_elev_data call has ended: it returned, or an
\* exception left it.
FetchReturned == entry = "batch" /\ pc = "warp"
FetchRaised == entry = "batch" /\ pc = "aborted" /\ err.stage = "fetch"

\* C12: every get_wgs84_elev_data call ends with the tile cache cleaned,
\* whether the retrieval completed or failed, and no call starts its
\* retrieval from a cache a failed call left dirty.
C12_FetchEndsWithCleanCache ==
    /\ FetchReturned => cache = "clean"
    /\ FetchRaised => cache = "clean"
    /\ pc = "clip" => cache # "dirty"

-----------------------------------------------------------------------------
(* Claims about experimental_zone_radius, checked under SpecCalls *)

RadiusCalled == call.fn = "experimental_zone_radius"

\* study_site_bbox was called with the radius of an area and beta = 1.0.
BboxOfRadiusCalled ==
    /\ BboxCalled
    /\ call.area > 0
    /\ call.beta = One
    /\ Len(call.p_coords) = 2

\* The half-width of the box of the last study_site_bbox call.
HalfWidth == call.res.val[3] - call.p_coords[1]

\* C13: experimental_zone_radius raises an error when the area is zero or
\* negative.
C13_NonPositiveAreaFails ==
    (RadiusCalled /\ call.area <= 0) => call.res.exc # ""

\* A length in hundredths of a unit, from fixed point.
Hundredths(v) == (v * 100) \div One
\* "Approximately": within one unit, that is 100 hundredths.
Near(v, hundredths) ==
    /\ Hundredths(v) - hundredths <= 100
    /\ hundredths - Hundredths(v) <= 100

\* C14 as stated: experimental_zone_radius returns sqrt(area / pi) for a
\* positive area; for area = 30,000,000 that is about 3093.96, and the
\* half-width of the box for beta = 1.0 is about 6187.92, twice the radius.
C14_RadiusOfBatchAreaAsStated ==
    /\ (RadiusCalled /\ call.area = BatchArea) =>
           /\ call.res.exc = ""
           /\ Near(call.res.val, 309396)
    /\ (BboxOfRadiusCalled /\ call.area = BatchArea) =>
           /\ call.res.exc = ""
           /\ HalfWidth = 2 * call.a
           /\ Near(HalfWidth, 618792)

\* C14, amended: experimental_zone_radius returns sqrt(area / pi) for a
\* positive area; for area = 30,000,000 that is about 3090.19, and the
\* half-width of the box for beta = 1.0 is twice the radius, about 6180.39.
C14_RadiusOfBatchArea ==
    /\ (RadiusCalled /\ call.area > 0) =>
           LET r == call.res.val
               q == MulDiv(call.area * One * One, PiDen, PiNum)
           IN /\ call.res.exc = ""
              /\ r * r <= q
              /\ q < (r + 1) * (r + 1)
    /\ (RadiusCalled /\ call.area = BatchArea) => Near(call.res.val, 309019)
    /\ BboxOfRadiusCalled =>
           /\ call.res.exc = ""
           /\ HalfWidth = 2 * call.a
    /\ (BboxOfRadiusCalled /\ call.area = BatchArea) => Near(HalfWidth, 618039)

\* The box for the radius of 30,000,000 square units and beta = 1.0 was
\* computed.
C14_Witness ==
    /\ BboxOfRadiusCalled
    /\ call.area = BatchArea
    /\ call.res.exc = ""
    /\ call.a > 0
    /\ HalfWidth = 2 * call.a

-----------------------------------------------------------------------------
(* Claims relating two calls of study_site_bbox, checked under SpecCalls *)

\* study_site_bbox was called twice for one 2-component point and one
\* positive radius, first with a smaller buffer factor than the second time.
TwoBoxesBetaIncreased ==
    /\ pc = "compared"
    /\ Len(call.p_coords) = 2
    /\ call.a > 0
    /\ call.prev[1].beta < call.beta

\* C15: for a fixed positive radius the half-width of the box is strictly
\* increasing in beta: beta1 < beta2 gives half-width(beta1) <
\* half-width(beta2), and the box for beta2 contains the box for beta1.
C15_HalfWidthIncreasesWithBeta ==
    TwoBoxesBetaIncreased =>
        LET x == call.p_coords[1]
            box1 == call.prev[1].res.val
            box2 == call.res.val
        IN /\ call.prev[1].res.exc = "" /\ call.res.exc = ""
           /\ box1[3] - x < box2[3] - x
           /\ box2[1] <= box1[1] /\ box2[2] <= box1[2]
           /\ box1[3] <= box2[3] /\ box1[4] <= box2[4]

\* Two boxes were computed for radius 1.0, with beta = 0.0 and then 1.0, the
\* second strictly larger.
C15_Witness ==
    /\ TwoBoxesBetaIncreased
    /\ call.a = One
    /\ call.prev[1].beta = 0 /\ call.beta = One
    /\ call.res.val[3] - call.p_coords[1] = 2 * One
    /\ call.prev[1].res.val[3] - call.p_coords[1] = One

-----------------------------------------------------------------------------
(* Claims about from_wgs84 and to_wgs84, checked under SpecCalls *)

\* A point was converted by one conversion and the result converted back by
\* the other, with an EPSG number pyproj resolves.
RoundTripped == pc = "roundtrip" /\ call.epsg \in KnownCrs

\* The point the round trip started from, and whether it started in WGS84.
FirstPoint == call.prev[1].p_coords
FromWgs84First == call.prev[1].fn = "from_wgs84"

\* The distance the rounding of the fixed-point grid allows between a point
\* and its round trip: none when the trip starts in WGS84, less than one step
\* of the WGS84 grid, in projected units, when it starts in the projected
\* system.
GridRounding == IF FromWgs84First THEN 0 ELSE ProjParams(call.epsg).k - 1

\* The round trip returned the point it started from, up to the rounding.
BackAtFirstPoint ==
    /\ call.res.exc = ""
    /\ \A n \in 1..2 :
         /\ call.res.val[n] - FirstPoint[n] <= GridRounding
         /\ FirstPoint[n] - call.res.val[n] <= GridRounding

InProjectionDomain ==
    FromWgs84First => (FirstPoint[2] <= MaxLat /\ FirstPoint[2] >= -MaxLat)

-----------------------------------------------------------------------------
(* Claims about the errors of the pipeline, checked under Spec *)

\* The exception that ended the run was raised by the call named fn.
RaisedIn(fn) == err.tb # <<>> /\ err.tb[Len(err.tb)] = fn

\* C17: an EPSG number that cannot be resolved makes the coordinate
\* conversion fail with CRSError, and in the pipeline of a site that happens
\* before elevation.clip or gdalwarp is invoked and before any file is
\* written: the run ends in the first conversion of the first site.
C17_UnknownCrsFailsFast ==
    tgt_crs \notin KnownCrs =>
        /\ clips = <<>>
        /\ procs = <<>>
        /\ Writes = {}
        /\ files = NoFiles
        /\ pc \in {"idle", "mkdir", "clip", "aborted", "killed", "done"}
        /\ pc = "done" => sites = <<>>
        /\ (pc = "aborted" /\ err.stage \in {"fetch", "warp"}) =>
              /\ err.exc = "CRSError"
              /\ RaisedIn("from_wgs84")
              /\ err.site = 1 \/ entry = "warp"

\* The batch ended with CRSError in the fetch of its first site, whose
\* directory had been made.
C17_Witness ==
    /\ tgt_crs \notin KnownCrs
    /\ entry = "batch"
    /\ pc = "aborted"
    /\ err.exc = "CRSError"
    /\ err.stage = "fetch"
    /\ site_dir(cwd, sites[1]) \in dirs
    /\ clips = <<>> /\ procs = <<>> /\ files = NoFiles

\* The site code the claim gives a site name: accents transliterated,
\* spaces replaced by underscores, lower case.
CodeOfName(sitename) ==
    CASE sitename = <<"N","a","v","a","r","r","é","s">> -> "navarres"
      [] sitename = <<"n","a","v","a","r","r","e","s">> -> "navarres"
      [] sitename = <<"S","a","n"," ","R","i","n","a">> -> "san_rina"

\* Rows m and n, in this order in the registry, have different site names
\* with the same site code.
Colliding(m, n) ==
    /\ m < n
    /\ sites[m].sitename # sites[n].sitename
    /\ SiteCode(m) = SiteCode(n)

\* C18: the site code is the site name with accents transliterated, spaces
\* replaced by underscores and in lower case; codes are not checked for
\* uniqueness: two names with one code are both processed with no error of
\* their own, in one directory and to one final raster path, and the raster
\* of the later row replaces that of the earlier.
C18_SiteCodeCollisionUnchecked ==
    /\ \A n \in DOMAIN sites : SiteCode(n) = CodeOfName(sites[n].sitename)
    /\ \A m, n \in DOMAIN sites :
         Colliding(m, n) =>
            /\ site_dir(cwd, sites[m]) = site_dir(cwd, sites[n])
            /\ final_fname(cwd, sites[m]) = final_fname(cwd, sites[n])
            /\ (entry = "batch" /\ pc = "aborted") =>
                   err.exc \in CollaboratorFailures \cup {"CRSError"}
            /\ (entry = "batch" /\ pc = "done") =>
                   /\ err = NoErr
                   /\ Completed(m) /\ Completed(n)
                   /\ final_fname(cwd, sites[n]) \in DOMAIN files
                   /\ files[final_fname(cwd, sites[n])].kind = "dem"
                   /\ files[final_fname(cwd, sites[n])].extent = CropBox(n)

\* A batch of 'Navarrés' and 'navarres' ran to its end: one final raster,
\* holding the crop of the second row and not that of the first.
C18_Witness ==
    /\ entry = "batch"
    /\ pc = "done"
    /\ Len(sites) = 2
    /\ Colliding(1, 2)
    /\ Completed(1) /\ Completed(2)
    /\ DOMAIN files = {final_fname(cwd, sites[2])}
    /\ files[final_fname(cwd, sites[1])].extent = CropBox(2)
    /\ CropBox(1) # CropBox(2)

\* The step of the loop body a traceback leads to: the calls from the cell
\* inwards name it.
StageOfTraceback(tb) ==
    CASE tb = <<>> -> ""
      [] tb[1] = "mkdir" -> "mkdir"
      [] Len(tb) >= 2 /\ tb[2] = "get_wgs84_elev_data" -> "fetch"
      [] Len(tb) >= 2 /\ tb[2] = "warp_elev_data" -> "warp"
      [] Len(tb) >= 2 /\ tb[2] = "remove" -> "remove"
      [] OTHER -> ""

\* The reported exception names a path of the directory of the row being
\* processed.
ErrorNamesSite ==
    \E k \in DOMAIN err.names :
        Under(err.names[k], site_dir(cwd, sites[err.site]))

\* The reported exception leads to the step that failed.
ErrorNamesStage == err.stage # "" /\ StageOfTraceback(err.tb) = err.stage

\* C19: whenever the batch aborts, the error reported to the user names the
\* site being processed and the stage (directory creation, fetch,
\* reprojection, deletion of the temporary raster) that failed.
C19_AbortNamesSiteAndStage ==
    (entry = "batch" /\ pc = "aborted") => (ErrorNamesSite /\ ErrorNamesStage)

-----------------------------------------------------------------------------
(* Claims about the order of the batch, checked under Spec *)

\* The file-system operations of the stages of one site, in order: the
\* directory is made, the retrieval writes its file, which is renamed to the
\* temporary raster, gdalwarp reads that and writes the final raster, and
\* the temporary raster is removed.
StageOps == <<"mkdir", "write", "rename", "read", "write", "remove">>

\* The operations of this run done for row number n, in order.
OpsOf(n) ==
    LET mine == SelectSeq(ops, LAMBDA o : o.site = n)
    IN [k \in 1..Len(mine) |-> mine[k].op]

IsPrefix(q, r) == Len(q) <= Len(r) /\ q = SubSeq(r, 1, Len(q))

\* How many times the retrieval and gdalwarp were invoked for row number n.
ClipsOf(n) == Cardinality({k \in DOMAIN clips : clips[k].site = n})
ProcsOf(n) == Cardinality({k \in DOMAIN procs : procs[k].site = n})

\* C20: the sites are processed one at a time in registry order; for each
\* the stages run in the order directory, fetch, reprojection, deletion of
\* the temporary raster, completion line, none skipped or repeated; and no
\* stage of the next site starts before the completion line of a site.
C20_StagesInOrder ==
    entry = "batch" =>
        LET signalled == Len(FinishedLines)
        IN /\ signalled <= Len(sites)
           /\ \A n \in 1..signalled : Completed(n)
           /\ \A k, l \in DOMAIN ops : k <= l => ops[k].site <= ops[l].site
           /\ \A n \in DOMAIN sites :
                 /\ n <= signalled =>
                       /\ OpsOf(n) = StageOps
                       /\ ClipsOf(n) = 1 /\ ProcsOf(n) = 1
                 /\ n = signalled + 1 =>
                       /\ IsPrefix(OpsOf(n), StageOps)
                       /\ ClipsOf(n) <= 1 /\ ProcsOf(n) <= 1
                       /\ ProcsOf(n) = 1 => (ClipsOf(n) = 1 /\ Len(OpsOf(n)) >= 3)
                       /\ ClipsOf(n) = 1 => Len(OpsOf(n)) >= 1
                 /\ n > signalled + 1 =>
                       /\ OpsOf(n) = <<>>
                       /\ ClipsOf(n) = 0 /\ ProcsOf(n) = 0
           /\ pc = "done" =>
                 /\ signalled = Len(sites)
                 /\ out[Len(out)].text = "Done."
           /\ pc \notin {"idle", "done", "aborted"} => i = signalled + 1

\* A batch of two sites ran to its end: twelve operations, six for each site
\* in turn, and two completion lines.
C20_Witness ==
    /\ entry = "batch"
    /\ pc = "done"
    /\ Len(sites) = 2
    /\ Len(FinishedLines) = 2
    /\ Len(ops) = 12
    /\ OpsOf(1) = StageOps /\ OpsOf(2) = StageOps
    /\ ops[6].site = 1 /\ ops[7].site = 2

-----------------------------------------------------------------------------
(* Claims about re-runs, checked under Spec *)

\* The batch runs again after a run that did not reach its end, with a
\* target system pyproj resolves.
RerunAfterFailure ==
    /\ entry = "batch"
    /\ run >= 2
    /\ ~ firstRun.set
    /\ sites # <<>>
    /\ tgt_crs \in KnownCrs

\* The step the batch is at can raise only if its collaborator fails:
\* whatever the earlier run left on disk, the directory can be made, the
\* retrieved file is there to be renamed, the temporary raster is there,
\* whole, to be warped and removed.
StepNeedsOnlyCollaborator ==
    /\ pc = "mkdir" => mkdir_exist_ok(dirs, files, site_dir(cwd, row)).exc = ""
    /\ pc = "rename" =>
          /\ fetchL.tif_name \in DOMAIN files
          /\ files[fetchL.tif_name].kind = "srtm"
          /\ Parent(fetchL.fname) \in dirs
    /\ pc = "warp" =>
          /\ TmpPath(i) \in DOMAIN files
          /\ files[TmpPath(i)].kind = "srtm"
          /\ Parent(FinalPath(i)) \in dirs
    /\ pc = "remove" => TmpPath(i) \in DOMAIN files
    /\ pc = "aborted" => err.exc \in CollaboratorFailures

\* C21: after a batch that was stopped or failed at any point, a re-run of
\* the whole batch raises nothing unless a collaborator fails again, and at
\* its end the disk is that of an uninterrupted run: every site has its
\* final raster, and no temporary raster or retrieval file remains.
C21_RerunAfterFailureCompletes ==
    RerunAfterFailure =>
        /\ StepNeedsOnlyCollaborator
        /\ pc = "done" => DiskOfCompleteBatch

\* The first run did not reach its end; the re-run of a registry of two
\* sites did, and left the disk of an uninterrupted run.
C21_Witness ==
    /\ RerunAfterFailure
    /\ run = 2
    /\ pc = "done"
    /\ Len(sites) = 2
    /\ DiskOfCompleteBatch

-----------------------------------------------------------------------------
(* get_elev_data run for two sites at once                                  *)
(* Two threads each run the loop body for one row, their steps interleaved. *)
(* pc, fetchL, warpL and err hold one value per thread; the disk, the cache *)
(* and the logs are shared. The collaborators do not fail by themselves:    *)
(* a step raises only when the file it needs is not there.                  *)

Threads == {1, 2}

\* The pairs of rows with different site codes.
SitePairs ==
    {q \in SeqsUpTo(SiteRows, 2) :
        Len(q) = 2 /\ sitecode(q[1].sitename) # sitecode(q[2].sitename)}

InitConcurrent ==
    /\ cwd \in CwdSet
    /\ sites \in SitePairs
    /\ tgt_crs \in KnownCrs \ {4326}
    /\ exp_radius \in RadiusSet
    /\ beta \in {b \in BetaSet : b >= 0}
    /\ entry = "concurrent"
    /\ pc = [t \in Threads |-> "mkdir"]
    /\ i = 0
    /\ run = 1
    /\ dirs = InitDirs
    /\ files = NoFiles
    /\ cache = "clean"
    /\ fetchL = [t \in Threads |-> NoFetchL]
    /\ warpL = [t \in Threads |-> NoWarpL]
    /\ ops = <<>>
    /\ clips = <<>>
    /\ procs = <<>>
    /\ out = <<>>
    /\ err = [t \in Threads |-> NoErr]
    /\ firstRun = NoFirstRun
    /\ call = NoCall

\* Thread t goes on to the step next.
Goto(t, next) == pc' = [pc EXCEPT ![t] = next]

\* An exception ends thread t.
AbortThread(t, stage, e) ==
    /\ pc' = [pc EXCEPT ![t] = "aborted"]
    /\ err' = [err EXCEPT ![t] = Ended(t, stage, e)]

\* site_dir.mkdir(exist_ok=True) in thread t
MkdirT(t) ==
    /\ pc[t] = "mkdir"
    /\ LET d == site_dir(cwd, sites[t])
           r == mkdir_exist_ok(dirs, files, d)
       IN IF r.exc = ""
          THEN /\ dirs' = r.val
               /\ ops' = Append(ops, Op("mkdir", d, <<>>, t))
               /\ Goto(t, "clip")
               /\ err' = err
          ELSE /\ AbortThread(t, "mkdir", Exception(r.exc, <<"mkdir">>, <<d>>))
               /\ UNCHANGED <<dirs, ops>>
    /\ UNCHANGED <<cwd, sites, tgt_crs, exp_radius, beta, entry, i, run, files,
                   cache, fetchL, warpL, clips, procs, out, firstRun, call>>

\* get_wgs84_elev_data up to elevation.clip, in thread t: the retrieval
\* writes the raster of the thread's box to tif_name.
ClipT(t) ==
    /\ pc[t] = "clip"
    /\ LET fname == tmp_fname(final_fname(cwd, sites[t]))
           native_coords == from_wgs84(p_coords_of(sites[t]), tgt_crs)
           native_bbox == study_site_bbox(native_coords.val, exp_radius,
                                          fetch_beta(beta))
           wgs84_bbox == bbox_to_wgs84(native_bbox.val, tgt_crs)
           tn == tif_name(cwd, fname)
       IN /\ fetchL' = [fetchL EXCEPT ![t] =
                           [native_coords |-> native_coords.val,
                            native_bbox |-> native_bbox.val,
                            wgs84_bbox |-> wgs84_bbox.val,
                            tif_name |-> tn, fname |-> fname]]
          /\ clips' = Append(clips, [site |-> t, bounds |-> wgs84_bbox.val,
                                     output |-> tn])
          /\ files' = WriteFile(files, tn,
                                Raster("srtm", "EPSG:4326", wgs84_bbox.val, <<>>))
          /\ ops' = Append(ops, Op("write", tn, <<>>, t))
          /\ cache' = "populated"
          /\ Goto(t, "rename")
    /\ UNCHANGED <<cwd, sites, tgt_crs, exp_radius, beta, entry, i, run, dirs,
                   warpL, procs, out, err, firstRun, call>>

\* os.rename(tif_name, fname) in thread t
RenameT(t) ==
    /\ pc[t] = "rename"
    /\ LET l == fetchL[t]
       IN IF l.tif_name \in DOMAIN files /\ Parent(l.fname) \in dirs
          THEN /\ files' = WriteFile(RemoveFile(files, l.tif_name), l.fname,
                                     files[l.tif_name])
               /\ ops' = Append(ops, Op("rename", l.tif_name, l.fname, t))
               /\ Goto(t, "clean")
               /\ err' = err
          ELSE /\ AbortThread(t, "fetch",
                     Exception("FileNotFoundError",
                               <<"get_elev_data", "get_wgs84_elev_data", "rename">>,
                               <<l.tif_name, l.fname>>))
               /\ UNCHANGED <<files, ops>>
    /\ UNCHANGED <<cwd, sites, tgt_crs, exp_radius, beta, entry, i, run, dirs,
                   cache, fetchL, warpL, clips, procs, out, firstRun, call>>

\* elevation.clean() in thread t
CleanT(t) ==
    /\ pc[t] = "clean"
    /\ cache' = "clean"
    /\ Goto(t, "warp")
    /\ UNCHANGED <<cwd, sites, tgt_crs, exp_radius, beta, entry, i, run, dirs,
                   files, fetchL, warpL, ops, clips, procs, out, err, firstRun,
                   call>>

\* warp_elev_data(tmp_fname, fname, ...) in thread t: gdalwarp exits
\* non-zero when its input is not there.
WarpT(t) ==
    /\ pc[t] = "warp"
    /\ LET out_fname == final_fname(cwd, sites[t])
           in_fname == tmp_fname(out_fname)
           native_coords == from_wgs84(p_coords_of(sites[t]), tgt_crs)
           native_bbox == study_site_bbox(native_coords.val, exp_radius,
                                          warp_beta(beta))
           param == warp_param(in_fname, out_fname, tgt_crs, native_bbox.val)
       IN /\ warpL' = [warpL EXCEPT ![t] =
                          [native_coords |-> native_coords.val,
                           native_bbox |-> native_bbox.val]]
          /\ IF in_fname \in DOMAIN files /\ Parent(out_fname) \in dirs
             THEN /\ procs' = Append(procs, Process(t, param, 0, ""))
                  /\ files' = WriteFile(files, out_fname,
                                 Raster("dem", param.t_srs, native_bbox.val,
                                        files[in_fname].extent))
                  /\ ops' = ops \o <<Op("read", in_fname, <<>>, t),
                                     Op("write", out_fname, <<>>, t)>>
                  /\ Goto(t, "remove")
                  /\ err' = err
             ELSE /\ procs' = Append(procs, Process(t, param, 1, Diagnostics))
                  /\ AbortThread(t, "warp",
                        CalledProcessError(1, <<in_fname, out_fname>>,
                            <<"get_elev_data", "warp_elev_data", "check_call">>))
                  /\ UNCHANGED <<files, ops>>
    /\ UNCHANGED <<cwd, sites, tgt_crs, exp_radius, beta, entry, i, run, dirs,
                   cache, fetchL, clips, out, firstRun, call>>

\* os.remove(tmp_fname) in thread t
RemoveT(t) ==
    /\ pc[t] = "remove"
    /\ LET tmp == tmp_fname(final_fname(cwd, sites[t]))
       IN IF tmp \in DOMAIN files
          THEN /\ files' = RemoveFile(files, tmp)
               /\ ops' = Append(ops, Op("remove", tmp, <<>>, t))
               /\ Goto(t, "print")
               /\ err' = err
          ELSE /\ AbortThread(t, "remove",
                     Exception("FileNotFoundError",
                               <<"get_elev_data", "remove">>, <<tmp>>))
               /\ UNCHANGED <<files, ops>>
    /\ UNCHANGED <<cwd, sites, tgt_crs, exp_radius, beta, entry, i, run, dirs,
                   cache, fetchL, warpL, clips, procs, out, firstRun, call>>

\* print('Finished processing ' + fname) in thread t
FinishT(t) ==
    /\ pc[t] = "print"
    /\ out' = Append(out, Line("Finished processing ", final_fname(cwd, sites[t])))
    /\ Goto(t, "done")
    /\ UNCHANGED <<cwd, sites, tgt_crs, exp_radius, beta, entry, i, run, dirs,
                   files, cache, fetchL, warpL, ops, clips, procs, err, firstRun,
                   call>>

NextConcurrent ==
    \E t \in Threads :
        \/ MkdirT(t)
        \/ ClipT(t)
        \/ RenameT(t)
        \/ CleanT(t)
        \/ WarpT(t)
        \/ RemoveT(t)
        \/ FinishT(t)

SpecConcurrent == InitConcurrent /\ [][NextConcurrent]_vars

\* The raster the retrieval of thread t was asked for: the WGS84 box of the
\* thread's own site.
OwnRetrieval(t) ==
    bbox_to_wgs84(study_site_bbox(ProjectedPoint(t), exp_radius,
                                  fetch_beta(beta)).val, tgt_crs).val

\* C22: two different sites processed concurrently, the tile cache not
\* interfering: neither thread fails, and each site's final raster is made
\* from the raster retrieved for that site.
C22_ConcurrentSitesIndependent ==
    entry = "concurrent" =>
        \A t \in Threads :
            /\ pc[t] # "aborted"
            /\ pc[t] \in {"remove", "print", "done"} =>
                  /\ FinalPath(t) \in DOMAIN files
                  /\ files[FinalPath(t)].src = OwnRetrieval(t)

-----------------------------------------------------------------------------
(* get_elev_data called on its own, with any point *)

\* The points handed to get_elev_data for a row: its longitude alone, its
\* longitude and latitude, and these followed by further components.
PointsOf(r) ==
    {[k \in 1..d |-> IF k = 1 THEN r.londd ELSE IF k = 2 THEN r.latdd ELSE 0] :
        d \in 1..MaxDim}

\* The site directories of the registry exist, as the loop leaves them.
InitDirect ==
    /\ cwd \in CwdSet
    /\ sites \in {q \in SeqsUpTo(SiteRows, MaxSites) : NoRowTwice(q) /\ q # <<>>}
    /\ tgt_crs \in CrsSet
    /\ exp_radius \in RadiusSet
    /\ beta \in BetaSet
    /\ entry = ""
    /\ pc = "idle"
    /\ i = 0
    /\ run = 0
    /\ dirs = InitDirs \cup {site_dir(cwd, sites[n]) : n \in DOMAIN sites}
    /\ files = NoFiles
    /\ cache = "clean"
    /\ fetchL = NoFetchL
    /\ warpL = NoWarpL
    /\ ops = <<>>
    /\ clips = <<>>
    /\ procs = <<>>
    /\ out = <<>>
    /\ err = NoErr
    /\ firstRun = NoFirstRun
    /\ call = NoCall

\* get_elev_data(site_dir / 'dem.tif', tgt_crs, p_coords, exp_radius, beta)
\* called for a row of the registry with a point of any dimension.
DirectGetElevData ==
    /\ pc \in {"idle", "done", "aborted"}
    /\ run < MaxRuns
    /\ run' = run + 1
    /\ entry' = "get_elev_data"
    /\ ops' = <<>> /\ clips' = <<>> /\ procs' = <<>> /\ out' = <<>>
    /\ err' = NoErr /\ fetchL' = NoFetchL /\ warpL' = NoWarpL
    /\ \E n \in DOMAIN sites :
         /\ i' = n
         /\ \E p \in PointsOf(sites[n]) :
              call' = [NoCall EXCEPT !.fn = "get_elev_data", !.p_coords = p]
    /\ pc' = "clip"
    /\ UNCHANGED <<cwd, sites, tgt_crs, exp_radius, beta, dirs, files, cache,
                   firstRun>>

NextDirect ==
    \/ DirectGetElevData
    \/ Clip
    \/ Rename
    \/ Clean
    \/ Warp
    \/ Remove
    \/ Finish

SpecDirect == InitDirect /\ [][NextDirect]_vars

\* get_elev_data runs, or has run, with a point that has not 2 components.
WrongDimensionPoint == call.fn = "get_elev_data" /\ Len(call.p_coords) # 2

\* C23: get_elev_data given a point whose number of components is not 2
\* fails with a dimension error before elevation.clip or gdalwarp is invoked
\* and before any file is written; a point with more components is not cut
\* down to its first two.
C23_WrongDimensionPointFailsFast ==
    WrongDimensionPoint =>
        /\ clips = <<>>
        /\ procs = <<>>
        /\ Writes = {}
        /\ pc \in {"clip", "aborted"}
        /\ pc = "aborted" => err.exc \in {"ValueError", "IndexError", "CRSError"}

-----------------------------------------------------------------------------
(* Claims about bbox_to_wgs84, checked under SpecCalls *)

BboxToWgs84Called == call.fn = "bbox_to_wgs84"

-----------------------------------------------------------------------------
(* Claims about the fetch, checked under Spec *)

\* The retrieval of the current get_wgs84_elev_data call failed.
RetrievalFailed == entry = "batch" /\ err.exc = "RetrievalError"

\* An operation of this run renamed a file for row number n.
RenamedFor(n) == \E k \in DOMAIN ops : ops[k].op = "rename" /\ ops[k].site = n

\* C25: a get_wgs84_elev_data call invokes elevation.clip at most once; when
\* the retrieval fails the call fails with that error, with no second
\* attempt and no file renamed to the output path, and get_elev_data does
\* not try again either: the run ends.
C25_SingleRetrievalAttempt ==
    /\ entry = "batch" => \A n \in DOMAIN sites : ClipsOf(n) <= 1
    /\ RetrievalFailed =>
          /\ pc = "aborted"
          /\ err.stage = "fetch"
          /\ RaisedIn("clip")
          /\ ClipsOf(err.site) = 1
          /\ clips[Len(clips)].site = err.site
          /\ ~ RenamedFor(err.site)
          /\ ProcsOf(err.site) = 0

\* The retrieval of the second site failed, leaving a partial file: one
\* attempt, nothing renamed, the run over.
C25_Witness ==
    /\ RetrievalFailed
    /\ pc = "aborted"
    /\ err.site = 2
    /\ ClipsOf(2) = 1
    /\ ~ RenamedFor(2)
    /\ fetchL.tif_name \in DOMAIN files
    /\ files[fetchL.tif_name].kind = "partial"


\* The box get_wgs84_elev_data computes in the target system for row n.
NativeFetchBox(n) ==
    study_site_bbox(ProjectedPoint(n), exp_radius, fetch_beta(beta)).val

\* The two diagonal corners of box b converted to WGS84, one after the other.
CornersConverted(b) ==
    LET min_corner == transform_inv(tgt_crs, b[1], b[2])
        max_corner == transform_inv(tgt_crs, b[3], b[4])
    IN <<min_corner[1], min_corner[2], max_corner[1], max_corner[2]>>

-----------------------------------------------------------------------------
(* Claims about the reference systems of one site's pipeline, under Spec *)

\* gdalwarp has run to the end for the current site of the batch.
SiteWarped == entry = "batch" /\ pc \in {"remove", "print"}

\* C27: in one get_elev_data call the supplied target system is the one the
\* site point is projected with for the fetch box, the one the fetch box is
\* converted back to WGS84 with, the one the point is projected with for
\* the crop box, and gdalwarp's -t_srs; the fetch box and the crop box are
\* computed with the same radius; the geographic system is EPSG:4326; and
\* both boxes have the projected site point as centre.
C27_SameSystemAndRadiusThroughout ==
    SiteWarped =>
        LET c == transform_fwd(tgt_crs, sites[i].londd, sites[i].latdd)
            F == fetchL.native_bbox
            W == warpL.native_bbox
            clip == clips[Len(clips)]
            proc == procs[Len(procs)]
        IN /\ tgt_crs \in KnownCrs
           /\ fetchL.native_coords = c
           /\ clip.site = i /\ clip.bounds = CornersConverted(F)
           /\ warpL.native_coords = c
           /\ proc.site = i
           /\ proc.param.t_srs = "EPSG:" \o ToString(tgt_crs)
           /\ proc.param.s_srs = "EPSG:4326"
           /\ pc = "remove" => files[fetchL.fname].srs = "EPSG:4326"
           /\ F = study_site_bbox(c, exp_radius, fetch_beta(beta)).val
           /\ W = study_site_bbox(c, exp_radius, beta).val
           /\ F[1] + F[3] = W[1] + W[3]
           /\ F[2] + F[4] = W[2] + W[4]
           /\ F[1] + F[3] = 2 * c[1] /\ F[2] + F[4] = 2 * c[2]

\* A site was fetched and warped in EPSG:2062 with the largest radius and
\* the default buffer factor, the two boxes differing.
C27_Witness ==
    /\ SiteWarped
    /\ tgt_crs = 2062
    /\ exp_radius = 3 * One
    /\ beta = One
    /\ procs[Len(procs)].site = i
    /\ procs[Len(procs)].param.t_srs = "EPSG:2062"
    /\ fetchL.native_bbox # warpL.native_bbox

-----------------------------------------------------------------------------
(* Claims about who writes the final rasters, under Spec *)

\* What is at a path of the disk f: the file, or a mark that there is none.
FileAt(f, path) ==
    IF path \in DOMAIN f THEN f[path] ELSE Raster("absent", "", <<>>, <<>>)

\* The rows whose final raster path has another content after the step.
FinalChanged ==
    {n \in DOMAIN sites : FileAt(files', FinalPath(n)) # FileAt(files, FinalPath(n))}

\* The step is one of warp_elev_data: that of the batch's get_elev_data or
\* a direct call.
WarpStageStep == pc = "warp" \/ (entry' = "warp" /\ run' = run + 1)

\* The step is one of the fetch stage of a site of the batch.
FetchStageStep == entry = "batch" /\ pc \in {"clip", "rename", "clean"}

\* C28: the content at the final raster path of a site changes only in a
\* step of warp_elev_data, which starts gdalwarp in that step; every step of
\* the fetch stage, one that fails included, leaves what is at the final
\* path of its own site and of every other site as it was.
C28_FinalRasterWrittenOnlyByWarp ==
    [][ /\ FinalChanged # {} =>
              /\ WarpStageStep
              /\ Len(procs') > 0
              /\ procs'[Len(procs')].param.out_fname = FinalPath(i')
              /\ FinalChanged \subseteq {n \in DOMAIN sites : FinalPath(n) = FinalPath(i')}
        /\ FetchStageStep => FinalChanged = {}
      ]_vars

\* On a second run the fetch of the first site failed, and the final
\* rasters of both sites, written by the first run, are those of the first
\* run.
C28_Witness ==
    /\ FetchRaised
    /\ run = 2
    /\ firstRun.set
    /\ err.site = 1
    /\ Len(sites) = 2
    /\ FinalPath(1) # FinalPath(2)
    /\ \A n \in DOMAIN sites :
          /\ FinalPath(n) \in DOMAIN files
          /\ files[FinalPath(n)].kind = "dem"
          /\ FinalPath(n) \in DOMAIN firstRun.files
          /\ files[FinalPath(n)] = firstRun.files[FinalPath(n)]

=============================================================================
